---- MODULE Spec2Model ----
(***************************************************************************)
(* Block matrix (PM-Master/blockmatrix-go): a leveldb key/value store      *)
(* holding the record "info" (size, block count, row and column digests),  *)
(* one record per caller key (the decimal block number) and one record per *)
(* block number (the block: data and hash).                                *)
(*                                                                         *)
(* Byte slices are strings, one character per byte.  sha256 is modelled    *)
(* as the injective function x |-> "H(" x ")".  A nil slice is the         *)
(* distinguished value NilBytes, different from the empty slice "".        *)
(***************************************************************************)
EXTENDS Integers, Sequences, FiniteSets, TLC

\* db: the leveldb store; ret: the last call and its result; tampered: the
\* out-of-band change made to the store, if any; maxSize: the largest size
\* ever stored in the info record; assigned: the block numbers successful
\* AddBlock calls were given; inserted: the keys AddBlock was called with;
\* erased: the keys EraseBlock succeeded for and AddBlock was not called with
\* since; calls: the two calls running concurrently, if any.
VARIABLES db, ret, tampered, maxSize, assigned, inserted, erased, calls

vars == <<db, ret, tampered, maxSize, assigned, inserted, erased, calls>>

\* ------------------------------------------------------------------ bounds
\* Block-count cap of the specification with arbitrary caller keys.
MaxBlocks == 5
\* Block-count cap of the specification with ordinary keys (multi-digit numbers).
MaxBlocksDeep == 11
\* Block-count cap of the specification with out-of-band changes.
MaxBlocksTamper == 4
\* Largest dimension of the specification that enumerates the numbering.
MaxDim == 7
\* Block-count cap of the specification with failing store writes.
MaxBlocksFault == 3
\* Block-count cap of the specification that only adds blocks.
MaxBlocksAdd == 6
\* Blocks added before the two concurrent calls start.
MaxBlocksConc == 2

\* Caller keys: the metadata record name, a decimal numeral, an ordinary key.
Keys == {"info", "1", "a"}
\* Ordinary caller keys.
PlainKeys == {"a", "b"}
\* Payloads: the byte 0 (the empty-block marker) and the byte 1.
Datas == {"0", "1"}
\* Payload of the specification with ordinary keys.
DeepDatas == {"1"}

\* ------------------------------------------------------------- byte values
NilBytes == "<nil>"

InfoKey == "info"

\* h.Write(p): a nil slice writes nothing.
Bytes(p) == IF p = NilBytes THEN "" ELSE p

calculateHash(bytes) == "H(" \o Bytes(bytes) \o ")"

Digit(d) ==
  CASE d = 0 -> "0" [] d = 1 -> "1" [] d = 2 -> "2" [] d = 3 -> "3"
    [] d = 4 -> "4" [] d = 5 -> "5" [] d = 6 -> "6" [] d = 7 -> "7"
    [] d = 8 -> "8" [] d = 9 -> "9"

\* strconv.Itoa / fmt.Sprint of a non-negative int.
RECURSIVE Itoa(_)
Itoa(n) == IF n < 10 THEN Digit(n) ELSE Itoa(n \div 10) \o Digit(n % 10)

\* strconv.Atoi(string(bytes[0])): the value of the first byte as a decimal
\* digit, -1 when it is not a digit.
AtoiFirstByte(s) ==
  LET c == SubSeq(s, 1, 1)
  IN IF \E d \in 0..9 : Digit(d) = c
       THEN CHOOSE d \in 0..9 : Digit(d) = c
       ELSE -1

\* ---------------------------------------------------------------- records
Block(data, hash) == [data |-> data, hash |-> hash]

NewBlock(data) == Block(data, calculateHash(data))

EmptyBlock == Block("0", calculateHash("0"))

BlockCalculateHash(b) == calculateHash(b.data)

\* Stored values.  A block number is stored as its decimal text; a block and
\* the info record are stored as JSON objects.
Raw(s) == [t |-> "raw", s |-> s]

MarshalBlock(b) == [t |-> "block", data |-> b.data, hash |-> b.hash]

MarshalInfo(info) ==
  [t |-> "info", size |-> info.size, count |-> info.count,
   rows |-> info.rows, cols |-> info.cols]

\* json.Unmarshal into a Block: a JSON number is a type error; a JSON object
\* fills the fields it names and leaves the others nil.
UnmarshalBlock(v) ==
  CASE v.t = "block" -> [err |-> "none", block |-> Block(v.data, v.hash)]
    [] v.t = "info" -> [err |-> "none", block |-> Block(NilBytes, NilBytes)]
    [] OTHER -> [err |-> "json", block |-> Block(NilBytes, NilBytes)]

ZeroInfo == [size |-> 0, count |-> 0, rows |-> <<>>, cols |-> <<>>]

\* json.Unmarshal into a BlockMatrixInfo.
UnmarshalInfo(v) ==
  CASE v.t = "info" ->
         [err |-> "none",
          info |-> [size |-> v.size, count |-> v.count,
                    rows |-> v.rows, cols |-> v.cols]]
    [] v.t = "block" -> [err |-> "none", info |-> ZeroInfo]
    [] OTHER -> [err |-> "json", info |-> ZeroInfo]

\* ------------------------------------------------------------------ store
Has(d, k) == k \in DOMAIN d

Put(d, k, v) == [x \in (DOMAIN d) \cup {k} |-> IF x = k THEN v ELSE d[x]]

Delete(d, k) == [x \in (DOMAIN d) \ {k} |-> d[x]]

\* ------------------------------------------------------------- arithmetic
\* int(math.Floor(math.Sqrt(float64(n))))
FloorSqrt(n) == CHOOSE s \in 0..n : s * s <= n /\ (s + 1) * (s + 1) > n

\* int(math.Ceil(math.Sqrt(float64(n))))
CeilSqrt(n) == CHOOSE s \in 0..n : s * s >= n /\ (s = 0 \/ (s - 1) * (s - 1) < n)

Size(blockCount) ==
  LET size == CeilSqrt(blockCount)
  IN IF size * size - size < blockCount THEN size + 1 ELSE size

\* locateBlock with the even branch comparing by < where the code has <=.
locateBlockStrict(blockNum) ==
  IF blockNum % 2 = 0
    THEN LET s == FloorSqrt(blockNum)
             row == IF blockNum < s * s + s THEN s ELSE s + 1
         IN <<row, (blockNum - (row * row - row + 2)) \div 2>>
    ELSE LET s == FloorSqrt(blockNum + 1)
             col == IF blockNum < s * s + s THEN s ELSE s + 1
         IN <<(blockNum - (col * col - col + 1)) \div 2, col>>

\* locateBlock: <<row, column>> of a block number.
locateBlock(blockNum) ==
  IF blockNum % 2 = 0
    THEN LET s == FloorSqrt(blockNum)
             row == IF blockNum <= s * s + s THEN s ELSE s + 1
         IN <<row, (blockNum - (row * row - row + 2)) \div 2>>
    ELSE LET s == FloorSqrt(blockNum + 1)
             col == IF blockNum < s * s + s THEN s ELSE s + 1
         IN <<(blockNum - (col * col - col + 1)) \div 2, col>>

\* rowBlockNumbers whose run above the diagonal never advances sub.
rowBlockNumbersFixedSub(rowIndex, blockCount) ==
  LET size == Size(blockCount)
      below == [c \in 1..rowIndex |-> rowIndex * rowIndex - rowIndex + 2 * c]
      nAbove == IF size - 1 - rowIndex > 0 THEN size - 1 - rowIndex ELSE 0
      above == [k \in 1..nAbove |->
                  LET col == rowIndex + k
                  IN col * col + col - 1]
  IN below \o above

\* rowBlockNumbers: the run below the diagonal, then the run above it.
rowBlockNumbers(rowIndex, blockCount) ==
  LET size == Size(blockCount)
      below == [c \in 1..rowIndex |-> rowIndex * rowIndex - rowIndex + 2 * c]
      nAbove == IF size - 1 - rowIndex > 0 THEN size - 1 - rowIndex ELSE 0
      above == [k \in 1..nAbove |->
                  LET col == rowIndex + k
                  IN col * col + col - (2 * k - 1)]
  IN below \o above

\* columnBlockNumbers: the run above the diagonal, then the run below it.
columnBlockNumbers(colIndex, blockCount) ==
  LET size == Size(blockCount)
      above == [r \in 1..colIndex |->
                  colIndex * colIndex + colIndex - (2 * colIndex - 1 - 2 * (r - 1))]
      nBelow == IF size - 1 - colIndex > 0 THEN size - 1 - colIndex ELSE 0
      below == [k \in 1..nBelow |->
                  LET row == colIndex + k
                  IN row * row - row + (2 * colIndex + 2)]
  IN above \o below

\* ------------------------------------------------------------- operations
\* GetBlockMatrixInfo: creates and stores a zero-size record when none exists.
GetBlockMatrixInfo(d) ==
  IF ~Has(d, "info")
    THEN LET info == [size |-> 0, count |-> 0,
                      rows |-> <<NilBytes>>, cols |-> <<NilBytes>>]
         IN [err |-> "none", db |-> Put(d, "info", MarshalInfo(info)), info |-> info]
    ELSE LET u == UnmarshalInfo(d["info"])
         IN [err |-> u.err, db |-> d, info |-> u.info]

\* initInfo: the record of an empty block matrix.
initInfo(d) ==
  Put(d, "info", MarshalInfo([size |-> 1, count |-> 0,
                              rows |-> <<NilBytes>>, cols |-> <<NilBytes>>]))

\* New that stores a fresh info record whether or not one exists.
NewAlwaysInit(d) == initInfo(d)

\* New: initialises the info record when the store has none.
New(d) == IF ~Has(d, InfoKey) THEN initInfo(d) ELSE d

GetBlockByNumber(d, num) ==
  LET k == Itoa(num)
  IN IF ~Has(d, k)
       THEN [err |-> "notfound", block |-> Block(NilBytes, NilBytes)]
       ELSE UnmarshalBlock(d[k])

\* The hash over the stored hashes of the listed blocks, in order; the first
\* block that cannot be read aborts the computation.
RECURSIVE hashBlocks(_, _, _)
hashBlocks(d, blocks, written) ==
  IF blocks = <<>>
    THEN [err |-> "none", hash |-> calculateHash(written)]
    ELSE LET g == GetBlockByNumber(d, Head(blocks))
         IN IF g.err # "none"
              THEN [err |-> g.err, hash |-> NilBytes]
              ELSE hashBlocks(d, Tail(blocks), written \o Bytes(g.block.hash))

calculateRowHash(d, row, blockCount) ==
  hashBlocks(d, rowBlockNumbers(row, blockCount), "")

calculateColumnHash(d, col, blockCount) ==
  hashBlocks(d, columnBlockNumbers(col, blockCount), "")

\* updateBlockMatrixSize allocating fresh digest sequences of the new size
\* instead of appending to the stored ones.
updateBlockMatrixSizeFresh(d, info, newSize) ==
  LET numBlocksToAdd == 2 * info.size
      new == {Itoa(i) : i \in info.count..(info.count + numBlocksToAdd - 1)}
  IN [db |-> [x \in (DOMAIN d) \cup new |->
                IF x \in new THEN MarshalBlock(EmptyBlock) ELSE d[x]],
      info |-> [info EXCEPT !.size = newSize,
                            !.rows = [i \in 1..newSize |-> ""],
                            !.cols = [i \in 1..newSize |-> ""]]]

\* updateBlockMatrixSize: stores an empty block under each of the 2 * Size
\* numbers from BlockCount on, and appends one empty digest per axis.
updateBlockMatrixSize(d, info, newSize) ==
  LET numBlocksToAdd == 2 * info.size
      new == {Itoa(i) : i \in info.count..(info.count + numBlocksToAdd - 1)}
  IN [db |-> [x \in (DOMAIN d) \cup new |->
                IF x \in new THEN MarshalBlock(EmptyBlock) ELSE d[x]],
      info |-> [info EXCEPT !.size = newSize,
                            !.rows = Append(info.rows, ""),
                            !.cols = Append(info.cols, "")]]

\* updateBlockMatrixInfo: recomputes the digest of the block's row and of its
\* column and stores the info record.  Writing a digest at an index the
\* sequence does not have panics.
updateBlockMatrixInfo(d, info, blockNum) ==
  LET row == locateBlock(blockNum)[1]
      col == locateBlock(blockNum)[2]
      rh == calculateRowHash(d, row, info.count)
      ch == calculateColumnHash(d, col, info.count)
  IN IF row >= Len(info.rows) THEN [err |-> "panic", db |-> d, info |-> info]
     ELSE IF rh.err # "none" THEN [err |-> rh.err, db |-> d, info |-> info]
     ELSE IF col >= Len(info.cols) THEN [err |-> "panic", db |-> d, info |-> info]
     ELSE IF ch.err # "none" THEN [err |-> ch.err, db |-> d, info |-> info]
     ELSE LET info2 == [info EXCEPT !.rows[row + 1] = rh.hash,
                                    !.cols[col + 1] = ch.hash]
          IN [err |-> "none", db |-> Put(d, "info", MarshalInfo(info2)),
              info |-> info2]

\* AddBlock that keeps the entry of a key already in the store.
AddBlockKeepKey(d, key, data) ==
  LET g == GetBlockMatrixInfo(d)
  IN IF g.err # "none" THEN [err |-> g.err, db |-> g.db, n |-> 0]
     ELSE
       LET info1 == [g.info EXCEPT !.count = g.info.count + 1]
           newSize == Size(info1.count)
           s == IF newSize > info1.size
                  THEN updateBlockMatrixSize(g.db, info1, newSize)
                  ELSE [db |-> g.db, info |-> info1]
           blockNum == info1.count
           blockNumBytes == Itoa(blockNum)
           d1 == IF Has(s.db, key) THEN s.db ELSE Put(s.db, key, Raw(blockNumBytes))
           d2 == Put(d1, blockNumBytes, MarshalBlock(NewBlock(data)))
           u == updateBlockMatrixInfo(d2, s.info, blockNum)
       IN [err |-> u.err, db |-> u.db, n |-> blockNum]

AddBlock(d, key, data) ==
  LET g == GetBlockMatrixInfo(d)
  IN IF g.err # "none" THEN [err |-> g.err, db |-> g.db, n |-> 0]
     ELSE
       LET info1 == [g.info EXCEPT !.count = g.info.count + 1]
           newSize == Size(info1.count)
           s == IF newSize > info1.size
                  THEN updateBlockMatrixSize(g.db, info1, newSize)
                  ELSE [db |-> g.db, info |-> info1]
           blockNum == info1.count
           blockNumBytes == Itoa(blockNum)
           d1 == Put(s.db, key, Raw(blockNumBytes))
           d2 == Put(d1, blockNumBytes, MarshalBlock(NewBlock(data)))
           u == updateBlockMatrixInfo(d2, s.info, blockNum)
       IN [err |-> u.err, db |-> u.db, n |-> blockNum]

\* The db.Put calls AddBlock makes before it recomputes the digests, in the
\* order of the code: the empty blocks of a growth, key -> number,
\* number -> block.
AddBlockPuts(info, key, data) ==
  LET blockCount == info.count + 1
      grow == IF Size(blockCount) > info.size
                THEN [i \in 1..(2 * info.size) |->
                        [k |-> Itoa(blockCount + i - 1), v |-> MarshalBlock(EmptyBlock)]]
                ELSE <<>>
  IN grow \o <<[k |-> key, v |-> Raw(Itoa(blockCount))],
               [k |-> Itoa(blockCount), v |-> MarshalBlock(NewBlock(data))]>>

\* The store after the first m of the puts: a key holds the value of the
\* last of those puts that wrote it.
PutAll(d, puts, m) ==
  LET written == {puts[i].k : i \in 1..m}
      last(x) == CHOOSE i \in 1..m :
                   puts[i].k = x /\ \A j \in (i + 1)..m : puts[j].k # x
  IN [x \in (DOMAIN d) \cup written |->
        IF x \in written THEN puts[last(x)].v ELSE d[x]]

\* AddBlock when the f-th db.Put of the call returns an error: the call
\* returns that error and the earlier puts stay. hit tells whether the call
\* got as far as its f-th put.
AddBlockFault(d, key, data, f) ==
  LET g == GetBlockMatrixInfo(d)
      full == AddBlock(d, key, data)
  IN IF g.err # "none" THEN [err |-> g.err, db |-> g.db, n |-> 0, hit |-> FALSE]
     ELSE
       LET puts == AddBlockPuts(g.info, key, data)
       IN IF f <= Len(puts)
            THEN [err |-> "put", db |-> PutAll(g.db, puts, f - 1),
                  n |-> g.info.count + 1, hit |-> TRUE]
          ELSE IF f = Len(puts) + 1 /\ full.err = "none"
            THEN [err |-> "put", db |-> PutAll(g.db, puts, Len(puts)),
                  n |-> g.info.count + 1, hit |-> TRUE]
          ELSE [err |-> full.err, db |-> full.db, n |-> full.n, hit |-> FALSE]

GetBlock(d, key) ==
  IF ~Has(d, key) THEN [err |-> "notfound", block |-> Block(NilBytes, NilBytes)]
  ELSE LET bytes == d[key]
       IN IF bytes.t # "raw" \/ ~Has(d, bytes.s)
            THEN [err |-> "notfound", block |-> Block(NilBytes, NilBytes)]
            ELSE UnmarshalBlock(d[bytes.s])

\* BlockNumber: parses the first byte of the stored value.
BlockNumber(d, key) ==
  IF ~Has(d, key) THEN [err |-> "notfound", num |-> -1]
  ELSE LET bytes == d[key]
           num == IF bytes.t = "raw" THEN AtoiFirstByte(bytes.s) ELSE -1
       IN IF num < 0 THEN [err |-> "atoi", num |-> -1]
                     ELSE [err |-> "none", num |-> num]

\* checkValidErase accepting an erase that changed no digest.
checkValidEraseAtMostOne(info, oldRowHashes, oldColHashes) ==
  LET rowChanged == {i \in 0..(info.size - 1) : oldRowHashes[i + 1] # info.rows[i + 1]}
      colChanged == {i \in 0..(info.size - 1) :
                       /\ i \notin rowChanged
                       /\ oldColHashes[i + 1] # info.cols[i + 1]}
  IN Cardinality(rowChanged) <= 1 /\ Cardinality(colChanged) <= 1

\* checkValidErase: counts the rows whose digest changed and, among the other
\* indices, the columns whose digest changed.
checkValidErase(info, oldRowHashes, oldColHashes) ==
  LET rowChanged == {i \in 0..(info.size - 1) : oldRowHashes[i + 1] # info.rows[i + 1]}
      colChanged == {i \in 0..(info.size - 1) :
                       /\ i \notin rowChanged
                       /\ oldColHashes[i + 1] # info.cols[i + 1]}
  IN Cardinality(rowChanged) = 1 /\ Cardinality(colChanged) = 1

EraseBlock(d, key) ==
  LET bn == BlockNumber(d, key)
  IN IF bn.err # "none" THEN [err |-> bn.err, db |-> d]
     ELSE
       LET d1 == Delete(d, key)
           d2 == Put(d1, Itoa(bn.num), MarshalBlock(EmptyBlock))
           g == GetBlockMatrixInfo(d2)
       IN IF g.err # "none" THEN [err |-> g.err, db |-> g.db]
          ELSE
            LET u == updateBlockMatrixInfo(g.db, g.info, bn.num)
            IN IF u.err # "none" THEN [err |-> u.err, db |-> u.db]
               ELSE IF Len(g.info.rows) < u.info.size \/ Len(g.info.cols) < u.info.size
                 THEN [err |-> "panic", db |-> u.db]
               ELSE IF ~checkValidErase(u.info, g.info.rows, g.info.cols)
                 THEN [err |-> "invalid", db |-> u.db]
               ELSE [err |-> "none", db |-> u.db]

\* IsValid: returns at the first block whose stored hash EQUALS the hash of
\* its data, then at the first row, then at the first column, whose stored
\* digest EQUALS the recomputed one (reflect.DeepEqual without negation).
IsValid(d) ==
  LET g == GetBlockMatrixInfo(d)
      info == g.info
      size == Size(info.count)
      blockStop == {i \in 1..info.count :
                      LET b == GetBlockByNumber(g.db, i)
                      IN b.err # "none" \/ b.block.hash = BlockCalculateHash(b.block)}
      rowStop == {i \in 0..(size - 1) :
                    LET h == calculateRowHash(g.db, i, info.count)
                    IN h.err # "none" \/ i >= Len(info.rows) \/ info.rows[i + 1] = h.hash}
      colStop == {i \in 0..(size - 1) :
                    LET h == calculateColumnHash(g.db, i, info.count)
                    IN h.err # "none" \/ i >= Len(info.cols) \/ info.cols[i + 1] = h.hash}
      Min(S) == CHOOSE x \in S : \A y \in S : x <= y
  IN IF g.err # "none" THEN [ok |-> FALSE, err |-> g.err, idx |-> 0, db |-> g.db]
     ELSE IF blockStop # {}
       THEN LET i == Min(blockStop)
                b == GetBlockByNumber(g.db, i)
            IN [ok |-> FALSE, err |-> IF b.err # "none" THEN b.err ELSE "block",
                idx |-> i, db |-> g.db]
     ELSE IF rowStop # {}
       THEN LET i == Min(rowStop)
                h == calculateRowHash(g.db, i, info.count)
            IN [ok |-> FALSE,
                err |-> IF h.err # "none" THEN h.err
                        ELSE IF i >= Len(info.rows) THEN "panic" ELSE "row",
                idx |-> i, db |-> g.db]
     ELSE IF colStop # {}
       THEN LET i == Min(colStop)
                h == calculateColumnHash(g.db, i, info.count)
            IN [ok |-> FALSE,
                err |-> IF h.err # "none" THEN h.err
                        ELSE IF i >= Len(info.cols) THEN "panic" ELSE "col",
                idx |-> i, db |-> g.db]
     ELSE [ok |-> TRUE, err |-> "none", idx |-> 0, db |-> g.db]

\* A cell of the grid that holds no block (a nil *Block).
NilCell == [nil |-> TRUE]

\* Matrix: a grid of side Size(BlockCount), filled for the block numbers
\* 1..Size*Size-Size of the stored size; the first block that cannot be
\* read, decoded or placed ends the call.
Matrix(d) ==
  LET g == GetBlockMatrixInfo(d)
      info == g.info
      size == Size(info.count)
      nums == 1..(info.size * info.size - info.size)
      fail(n) ==
        IF ~Has(g.db, Itoa(n)) THEN "notfound"
        ELSE IF g.db[Itoa(n)].t = "raw" THEN "json"
        ELSE IF locateBlock(n)[1] >= size \/ locateBlock(n)[2] >= size THEN "panic"
        ELSE "none"
      bad == {n \in nums : fail(n) # "none"}
      block(n) == IF g.db[Itoa(n)].t = "block"
                    THEN Block(g.db[Itoa(n)].data, g.db[Itoa(n)].hash)
                    ELSE EmptyBlock
      at(i, j) == {n \in nums : locateBlock(n) = <<i, j>>}
      Min(S) == CHOOSE x \in S : \A y \in S : x <= y
      Max(S) == CHOOSE x \in S : \A y \in S : x >= y
  IN IF g.err # "none" THEN [err |-> g.err, db |-> g.db, grid |-> <<>>]
     ELSE IF bad # {} THEN [err |-> fail(Min(bad)), db |-> g.db, grid |-> <<>>]
     ELSE [err |-> "none", db |-> g.db,
           grid |-> [i \in 1..size |-> [j \in 1..size |->
                      IF at(i - 1, j - 1) = {} THEN NilCell
                      ELSE block(Max(at(i - 1, j - 1)))]]]

\* ------------------------------------------------------------------ state
NotTampered == [kind |-> "none", idx |-> 0]

\* No calls are running concurrently.
Idle == [phase |-> "idle"]

InfoReadable == Has(db, "info") /\ db["info"].t = "info"

\* The stored info record, as GetBlockMatrixInfo reads it.
Info == GetBlockMatrixInfo(db).info

\* The largest size stored so far, given the store after a call.
SeenSize(d) ==
  IF Has(d, "info") /\ d["info"].t = "info" /\ d["info"].size > maxSize
    THEN d["info"].size
    ELSE maxSize

\* The state after New on an empty store.
Init ==
  /\ db = New([x \in {} |-> Raw("")])
  /\ ret = [op |-> "New", err |-> "none"]
  /\ tampered = NotTampered
  /\ maxSize = 1
  /\ assigned = {}
  /\ inserted = {}
  /\ erased = {}
  /\ calls = Idle

\* ---------------------------------------------------------------- actions
\* A call aborted by an error or a panic keeps the writes it has made. r is
\* the result of the one call the step makes.
DoAddBlock(keys, datas, max) ==
  \E key \in keys, data \in datas :
    /\ tampered = NotTampered
    /\ ~InfoReadable \/ Info.count < max
    /\ \E r \in {AddBlock(db, key, data)} :
          /\ db' = r.db
          /\ maxSize' = SeenSize(r.db)
          /\ ret' = [op |-> "AddBlock", key |-> key, data |-> data,
                     err |-> r.err, n |-> r.n]
          /\ assigned' = IF r.err = "none" THEN assigned \cup {r.n} ELSE assigned
    /\ inserted' = inserted \cup {key}
    /\ erased' = erased \ {key}
    /\ UNCHANGED <<tampered, calls>>

\* AddBlock during which one write to the store fails.
DoAddBlockFault(keys, datas, max) ==
  \E key \in keys, data \in datas :
    \E f \in 1..(2 * max + 3) :
      /\ tampered = NotTampered
      /\ InfoReadable /\ Info.count < max
      /\ \E r \in {AddBlockFault(db, key, data, f)} :
            /\ r.hit
            /\ db' = r.db
            /\ maxSize' = SeenSize(r.db)
            /\ ret' = [op |-> "AddBlockFault", key |-> key, data |-> data,
                       err |-> r.err, n |-> r.n, f |-> f]
      /\ inserted' = inserted \cup {key}
      /\ erased' = erased \ {key}
      /\ UNCHANGED <<tampered, assigned, calls>>

DoEraseBlock(keys) ==
  \E key \in keys :
    /\ tampered = NotTampered
    /\ \E r \in {EraseBlock(db, key)} :
          /\ db' = r.db
          /\ maxSize' = SeenSize(r.db)
          /\ ret' = [op |-> "EraseBlock", key |-> key, err |-> r.err]
          /\ erased' = IF r.err = "none" THEN erased \cup {key} ELSE erased
    /\ UNCHANGED <<tampered, assigned, inserted, calls>>

DoGetBlock(keys) ==
  \E key \in keys :
    /\ \E r \in {GetBlock(db, key)} :
          ret' = [op |-> "GetBlock", key |-> key, err |-> r.err,
                  data |-> r.block.data, hash |-> r.block.hash]
    /\ UNCHANGED <<db, tampered, maxSize, assigned, inserted, erased, calls>>

DoBlockNumber(keys) ==
  \E key \in keys :
    /\ \E r \in {BlockNumber(db, key)} :
          ret' = [op |-> "BlockNumber", key |-> key, err |-> r.err, n |-> r.num]
    /\ UNCHANGED <<db, tampered, maxSize, assigned, inserted, erased, calls>>

DoIsValid ==
  /\ \E r \in {IsValid(db)} :
        /\ db' = r.db
        /\ maxSize' = SeenSize(r.db)
        /\ ret' = [op |-> "IsValid", ok |-> r.ok, err |-> r.err, idx |-> r.idx]
  /\ UNCHANGED <<tampered, assigned, inserted, erased, calls>>

DoMatrix ==
  /\ \E r \in {Matrix(db)} :
        /\ db' = r.db
        /\ ret' = [op |-> "Matrix", err |-> r.err, grid |-> r.grid]
  /\ UNCHANGED <<tampered, maxSize, assigned, inserted, erased, calls>>

\* New on the store as it is (closing and re-opening the block matrix).
DoNew ==
  /\ db' = New(db)
  /\ ret' = [op |-> "New", err |-> "none"]
  /\ UNCHANGED <<tampered, maxSize, assigned, inserted, erased, calls>>

\* Out-of-band changes to the store, made once, after which only reads follow.
\* The data of block n is replaced, its stored hash kept.
TamperBlock ==
  \E n \in 1..MaxBlocksTamper, data \in Datas :
    /\ tampered = NotTampered
    /\ InfoReadable /\ n <= Info.count
    /\ Has(db, Itoa(n)) /\ db[Itoa(n)].t = "block"
    /\ db[Itoa(n)].hash = calculateHash(db[Itoa(n)].data)
    /\ data # db[Itoa(n)].data
    /\ db' = [db EXCEPT ![Itoa(n)].data = data]
    /\ tampered' = [kind |-> "block", idx |-> n]
    /\ ret' = [op |-> "Tamper", err |-> "none"]
    /\ UNCHANGED <<maxSize, assigned, inserted, erased, calls>>

\* The stored digest of row i is replaced by another digest.
TamperRow ==
  \E i \in 0..MaxBlocksTamper :
    /\ tampered = NotTampered
    /\ InfoReadable /\ i < Info.size
    /\ db' = [db EXCEPT !["info"].rows[i + 1] = calculateHash("x" \o Bytes(@))]
    /\ tampered' = [kind |-> "row", idx |-> i]
    /\ ret' = [op |-> "Tamper", err |-> "none"]
    /\ UNCHANGED <<maxSize, assigned, inserted, erased, calls>>

\* The stored digest of column i is replaced by another digest.
TamperCol ==
  \E i \in 0..MaxBlocksTamper :
    /\ tampered = NotTampered
    /\ InfoReadable /\ i < Info.size
    /\ db' = [db EXCEPT !["info"].cols[i + 1] = calculateHash("x" \o Bytes(@))]
    /\ tampered' = [kind |-> "col", idx |-> i]
    /\ ret' = [op |-> "Tamper", err |-> "none"]
    /\ UNCHANGED <<maxSize, assigned, inserted, erased, calls>>

\* Calls with arbitrary caller keys.
Next ==
  \/ DoAddBlock(Keys, Datas, MaxBlocks)
  \/ DoEraseBlock(Keys)
  \/ DoGetBlock(Keys)
  \/ DoBlockNumber(Keys)
  \/ DoIsValid
  \/ DoNew
  \/ DoMatrix

Spec == Init /\ [][Next]_vars

\* Calls with ordinary caller keys, up to multi-digit block numbers.
NextDeep ==
  \/ DoAddBlock(PlainKeys, DeepDatas, MaxBlocksDeep)
  \/ DoEraseBlock(PlainKeys)
  \/ DoBlockNumber(PlainKeys)

SpecDeep == Init /\ [][NextDeep]_vars

\* Calls with ordinary caller keys, one out-of-band change, then IsValid.
NextTamper ==
  \/ DoAddBlock(PlainKeys, Datas, MaxBlocksTamper)
  \/ DoEraseBlock(PlainKeys)
  \/ TamperBlock
  \/ TamperRow
  \/ TamperCol
  \/ DoIsValid

SpecTamper == Init /\ [][NextTamper]_vars

\* ------------------------------------------------------ concurrent calls
\* The calls two concurrent callers can make.
Requests ==
  {[op |-> "AddBlock", key |-> k, data |-> x] : k \in PlainKeys, x \in Datas}
    \cup {[op |-> "EraseBlock", key |-> k, data |-> ""] : k \in PlainKeys}

\* A call that has not yet touched the store: its position and its locals
\* (info, the block number n, the error it returned).
StartCall(q) ==
  [op |-> q.op, key |-> q.key, data |-> q.data, pc |-> "start",
   info |-> ZeroInfo, n |-> 0, err |-> "none"]

\* The next run of store accesses of call c on store d, in the order of the
\* code. AddBlock: read info; write the growth blocks, key and block;
\* recompute the digests and write info. EraseBlock: read the block number;
\* delete the key and write the empty block; read info; recompute the
\* digests, write info and compare.
CallStep(d, c) ==
  CASE c.op = "AddBlock" /\ c.pc = "start" ->
         LET g == GetBlockMatrixInfo(d)
         IN IF g.err # "none"
              THEN [db |-> g.db, c |-> [c EXCEPT !.pc = "done", !.err = g.err]]
              ELSE [db |-> g.db, c |-> [c EXCEPT !.pc = "write", !.info = g.info]]
    [] c.op = "AddBlock" /\ c.pc = "write" ->
         LET info1 == [c.info EXCEPT !.count = c.info.count + 1]
             newSize == Size(info1.count)
             s == IF newSize > info1.size
                    THEN updateBlockMatrixSize(d, info1, newSize)
                    ELSE [db |-> d, info |-> info1]
             blockNumBytes == Itoa(info1.count)
             d1 == Put(s.db, c.key, Raw(blockNumBytes))
             d2 == Put(d1, blockNumBytes, MarshalBlock(NewBlock(c.data)))
         IN [db |-> d2,
             c |-> [c EXCEPT !.pc = "digest", !.info = s.info, !.n = info1.count]]
    [] c.op = "AddBlock" /\ c.pc = "digest" ->
         LET u == updateBlockMatrixInfo(d, c.info, c.n)
         IN [db |-> u.db, c |-> [c EXCEPT !.pc = "done", !.err = u.err]]
    [] c.op = "EraseBlock" /\ c.pc = "start" ->
         LET bn == BlockNumber(d, c.key)
         IN IF bn.err # "none"
              THEN [db |-> d, c |-> [c EXCEPT !.pc = "done", !.err = bn.err]]
              ELSE [db |-> d, c |-> [c EXCEPT !.pc = "write", !.n = bn.num]]
    [] c.op = "EraseBlock" /\ c.pc = "write" ->
         [db |-> Put(Delete(d, c.key), Itoa(c.n), MarshalBlock(EmptyBlock)),
          c |-> [c EXCEPT !.pc = "info"]]
    [] c.op = "EraseBlock" /\ c.pc = "info" ->
         LET g == GetBlockMatrixInfo(d)
         IN IF g.err # "none"
              THEN [db |-> g.db, c |-> [c EXCEPT !.pc = "done", !.err = g.err]]
              ELSE [db |-> g.db, c |-> [c EXCEPT !.pc = "digest", !.info = g.info]]
    [] c.op = "EraseBlock" /\ c.pc = "digest" ->
         LET u == updateBlockMatrixInfo(d, c.info, c.n)
             err == IF u.err # "none" THEN u.err
                    ELSE IF Len(c.info.rows) < u.info.size
                              \/ Len(c.info.cols) < u.info.size THEN "panic"
                    ELSE IF ~checkValidErase(u.info, c.info.rows, c.info.cols)
                      THEN "invalid"
                    ELSE "none"
         IN [db |-> u.db, c |-> [c EXCEPT !.pc = "done", !.err = err]]

\* Two callers start one call each on the same handle.
StartCalls ==
  /\ calls = Idle
  /\ tampered = NotTampered
  /\ \E q1, q2 \in Requests :
       calls' = [phase |-> "run", base |-> db,
                 q |-> <<q1, q2>>, c |-> <<StartCall(q1), StartCall(q2)>>]
  /\ ret' = [op |-> "StartCalls", err |-> "none"]
  /\ UNCHANGED <<db, tampered, maxSize, assigned, inserted, erased>>

\* One of the two calls makes its next run of store accesses.
StepCall ==
  /\ calls.phase = "run"
  /\ \E p \in {1, 2} :
       /\ calls.c[p].pc # "done"
       /\ \E r \in {CallStep(db, calls.c[p])} :
            /\ db' = r.db
            /\ maxSize' = SeenSize(r.db)
            /\ calls' = [calls EXCEPT
                          !.c[p] = r.c,
                          !.phase = IF r.c.pc = "done" /\ calls.c[3 - p].pc = "done"
                                      THEN "done" ELSE "run"]
            /\ ret' = [op |-> "StepCall", p |-> p, pc |-> r.c.pc, err |-> r.c.err]
            /\ assigned' = IF r.c.op = "AddBlock" /\ r.c.pc = "done" /\ r.c.err = "none"
                             THEN assigned \cup {r.c.n} ELSE assigned
            /\ inserted' = IF r.c.op = "AddBlock"
                             THEN inserted \cup {r.c.key} ELSE inserted
            /\ erased' = IF r.c.op = "AddBlock" THEN erased \ {r.c.key}
                         ELSE IF r.c.pc = "done" /\ r.c.err = "none"
                           THEN erased \cup {r.c.key}
                         ELSE erased
  /\ UNCHANGED tampered

\* Calls made one after the other, then two calls made concurrently.
SetUp ==
  /\ calls = Idle
  /\ DoAddBlock(PlainKeys, Datas, MaxBlocksConc)

NextConcurrent ==
  \/ SetUp
  \/ StartCalls
  \/ StepCall

SpecConcurrent == Init /\ [][NextConcurrent]_vars

\* AddBlock calls only.
NextAddOnly == DoAddBlock(Keys, Datas, MaxBlocksAdd)

SpecAddOnly == Init /\ [][NextAddOnly]_vars

\* Ordinary keys and a store whose writes can fail during AddBlock.
NextFault ==
  \/ DoAddBlock(PlainKeys, Datas, MaxBlocksFault)
  \/ DoAddBlockFault(PlainKeys, Datas, MaxBlocksFault)
  \/ DoEraseBlock(PlainKeys)

SpecFault == Init /\ [][NextFault]_vars

\* The numbering functions applied to every block number, block count and
\* index up to MaxDim.
DoLocateBlock ==
  \E d \in 1..MaxDim :
    \E blockNum \in 1..(d * d - d) :
      /\ ret' = [op |-> "locateBlock", d |-> d, n |-> blockNum,
                 row |-> locateBlock(blockNum)[1],
                 col |-> locateBlock(blockNum)[2]]
      /\ UNCHANGED <<db, tampered, maxSize, assigned, inserted, erased, calls>>

DoRowBlockNumbers ==
  \E blockCount \in 1..(MaxDim * MaxDim - MaxDim) :
    \E rowIndex \in 0..(Size(blockCount) - 1) :
      /\ ret' = [op |-> "rowBlockNumbers", c |-> blockCount, r |-> rowIndex,
                 nums |-> rowBlockNumbers(rowIndex, blockCount)]
      /\ UNCHANGED <<db, tampered, maxSize, assigned, inserted, erased, calls>>

DoColumnBlockNumbers ==
  \E blockCount \in 1..(MaxDim * MaxDim - MaxDim) :
    \E colIndex \in 0..(Size(blockCount) - 1) :
      /\ ret' = [op |-> "columnBlockNumbers", c |-> blockCount, r |-> colIndex,
                 nums |-> columnBlockNumbers(colIndex, blockCount)]
      /\ UNCHANGED <<db, tampered, maxSize, assigned, inserted, erased, calls>>

NextNumbering ==
  \/ DoLocateBlock
  \/ DoRowBlockNumbers
  \/ DoColumnBlockNumbers

SpecNumbering == Init /\ [][NextNumbering]_vars

\* ----------------------------------------------------------------- claims
\* The indices at which the digests before and after a call differ: an entry
\* present in both and not equal, or an entry absent before and holding a
\* computed digest afterwards (an appended empty digest is no difference).
Differ(old, new) ==
  {i \in 0..(Len(new) - 1) :
     IF i < Len(old) THEN old[i + 1] # new[i + 1] ELSE new[i + 1] # ""}

\* The block number a stored decimal text denotes.
Atoi(s) == CHOOSE n \in 0..99 : Itoa(n) = s

\* The digest of a row / column recomputed from the stored blocks.
RowDigest(i) == calculateRowHash(db, i, Info.count)

ColDigest(j) == calculateColumnHash(db, j, Info.count)

\* C1: once a block has been inserted, every stored row digest equals the
\* digest over the stored hashes of rowBlockNumbers(i, blockCount), and every
\* stored column digest the digest over columnBlockNumbers(j, blockCount).
C1_DigestsMatchBlocks ==
  (InfoReadable /\ Info.count >= 1) =>
    \A i \in 0..(Info.size - 1) :
      /\ RowDigest(i).err = "none" /\ Info.rows[i + 1] = RowDigest(i).hash
      /\ ColDigest(i).err = "none" /\ Info.cols[i + 1] = ColDigest(i).hash

\* C2: IsValid reports success after any sequence of AddBlock and EraseBlock
\* calls with ordinary keys and no out-of-band change.
C2_IsValidAfterCalls ==
  (ret.op = "IsValid" /\ tampered = NotTampered) => ret.ok

\* C3: after an out-of-band change of one block's data IsValid fails with a
\* block-hash mismatch at that block; after an out-of-band change of one row
\* (column) digest it fails with a row (column) mismatch at that index.
C3_IsValidReportsTamper ==
  (ret.op = "IsValid" /\ tampered # NotTampered) =>
    /\ ~ret.ok
    /\ ret.err = tampered.kind
    /\ ret.idx = tampered.idx

\* C4: GetBlock(key) right after a successful AddBlock(key, data) returns a
\* block with that data and hash = digest(data), for every key.
C4_RoundTrip ==
  (ret.op = "AddBlock" /\ ret.err = "none") =>
    LET g == GetBlock(db, ret.key)
    IN /\ g.err = "none"
       /\ g.block.data = ret.data
       /\ g.block.hash = calculateHash(ret.data)

C6_EraseSuccessOnlyIfOneEach ==
  [][(ret'.op = "EraseBlock" /\ ret'.err = "none") =>
       /\ InfoReadable /\ InfoReadable'
       /\ Cardinality(Differ(Info.rows, Info'.rows)) = 1
       /\ Cardinality(Differ(Info.cols, Info'.cols)) = 1]_vars

\* EraseBlock has returned success.
C6_Witness == ret.op = "EraseBlock" /\ ret.err = "none"

\* C7: after a successful EraseBlock(key), with key -> n, block n is the empty
\* block, every other block is unchanged, and so are blockCount and size.
C7_ErasesAssignedBlock ==
  [][(ret'.op = "EraseBlock" /\ ret'.err = "none") =>
       LET n == Atoi(db[ret'.key].s)
       IN /\ db'[Itoa(n)] = MarshalBlock(EmptyBlock)
          /\ \A m \in 1..(Info.size * Info.size - Info.size) :
               m # n => db'[Itoa(m)] = db[Itoa(m)]
          /\ Info'.count = Info.count
          /\ Info'.size = Info.size]_vars

\* C8: BlockNumber(key) returns the number AddBlock stored for the key.
C8_BlockNumberReturnsAssigned ==
  \A key \in PlainKeys :
    Has(db, key) =>
      /\ BlockNumber(db, key).err = "none"
      /\ BlockNumber(db, key).num = Atoi(db[key].s)

\* C9: the stored size never drops below a size stored earlier, and
\* size * size - size >= blockCount.
C9_SizeMonotone ==
  InfoReadable =>
    /\ Info.size >= maxSize
    /\ Info.size * Info.size - Info.size >= Info.count

\* C10: the stored size is the smallest n with n * n - n >= blockCount and
\* equals Size(blockCount).
C10_SizeIsSmallest ==
  InfoReadable =>
    /\ Info.size * Info.size - Info.size >= Info.count
    /\ \A n \in 0..(Info.size - 1) : n * n - n < Info.count
    /\ Info.size = Size(Info.count)

\* C11: in every reachable state the stored row and column digest lists both
\* have exactly as many entries as the stored size.
C11_DigestListsMatchSize ==
  InfoReadable =>
    /\ Len(Info.rows) = Info.size
    /\ Len(Info.cols) = Info.size

\* The off-diagonal cells of a d x d grid.
OffDiagonal(d) == {c \in (0..(d - 1)) \X (0..(d - 1)) : c[1] # c[2]}

\* The elements of a list, and whether it is strictly ascending.
Elems(q) == {q[i] : i \in 1..Len(q)}

Ascending(q) == \A i \in 1..(Len(q) - 1) : q[i] < q[i + 1]

\* C12: for the dimension d at hand, locateBlock maps 1..d*d-d one-to-one
\* onto the off-diagonal cells of the d x d grid.
C12_LocateBlockBijection ==
  ret.op = "locateBlock" =>
    LET d == ret.d
        nums == 1..(d * d - d)
    IN /\ <<ret.row, ret.col>> \in OffDiagonal(d)
       /\ {locateBlock(n) : n \in nums} = OffDiagonal(d)
       /\ \A m, n \in nums : locateBlock(m) = locateBlock(n) => m = n

\* locateBlock has been applied to the last block number of a 5 x 5 grid.
C12_Witness == ret.op = "locateBlock" /\ ret.d = 5 /\ ret.n = 20

\* C13: rowBlockNumbers(r, c) and columnBlockNumbers(r, c) list, strictly
\* ascending, exactly the block numbers of 1..d*d-d, d = Size(c), that
\* locateBlock puts in row r, respectively column r; the listed examples hold.
C13_RowColumnNumbers ==
  LET d == Size(ret.c)
      nums == 1..(d * d - d)
  IN /\ ret.op = "rowBlockNumbers" =>
          /\ Ascending(ret.nums)
          /\ Elems(ret.nums) = {n \in nums : locateBlock(n)[1] = ret.r}
          /\ (ret.c = 5 /\ ret.r = 2) => ret.nums = <<4, 6>>
          /\ (ret.c = 25 /\ ret.r = 0) => ret.nums = <<1, 3, 7, 13, 21>>
     /\ ret.op = "columnBlockNumbers" =>
          /\ Ascending(ret.nums)
          /\ Elems(ret.nums) = {n \in nums : locateBlock(n)[2] = ret.r}
          /\ (ret.c = 5 /\ ret.r = 1) => ret.nums = <<1, 6>>
          /\ (ret.c = 25 /\ ret.r = 3) => ret.nums = <<7, 9, 11, 20, 28>>

\* The numbers of column 3 after 25 inserts have been listed.
C13_Witness ==
  /\ ret.op = "columnBlockNumbers"
  /\ ret.c = 25
  /\ ret.r = 3
  /\ Len(ret.nums) = 5

\* C14: once a block has been added, GetBlockByNumber(n) returns a block for
\* every n in 1..size*size-size, and every slot above blockCount holds the
\* empty block.
C14_EverySlotMaterialised ==
  (InfoReadable /\ assigned # {}) =>
    \A n \in 1..(Info.size * Info.size - Info.size) :
      /\ GetBlockByNumber(db, n).err = "none"
      /\ n > Info.count => GetBlockByNumber(db, n).block = EmptyBlock

\* C15: a successful AddBlock is given the number following the count of the
\* successful AddBlock calls before it, a number no earlier AddBlock was
\* given, and raises blockCount from that number minus one to that number;
\* EraseBlock leaves blockCount as it was.
C15_NumbersAssignedOnce ==
  [][/\ (ret'.op = "AddBlock" /\ ret'.err = "none") =>
          /\ ret'.n = Cardinality(assigned) + 1
          /\ ret'.n \notin assigned
          /\ Info.count = ret'.n - 1
          /\ Info'.count = ret'.n
     /\ (ret'.op = "EraseBlock" /\ InfoReadable) =>
          GetBlockMatrixInfo(db').info.count = Info.count]_vars

\* C16: an AddBlock with a different key leaves every key that GetBlock
\* resolves with the block number, data and hash it had before the call.
C16_AddBlockKeepsOtherKeys ==
  [][ret'.op = "AddBlock" =>
       \A key \in (Keys \cup PlainKeys) \ {ret'.key} :
         (key \in inserted /\ GetBlock(db, key).err = "none") =>
           /\ db'[key] = db[key]
           /\ GetBlock(db', key) = GetBlock(db, key)]_vars

\* AddBlock is called with a key that GetBlock resolves to a block and that
\* an earlier AddBlock was called with.
DuplicateAdd ==
  /\ ret'.op = "AddBlock"
  /\ ret'.key \in inserted
  /\ GetBlock(db, ret'.key).err = "none"

\* C17 (as stated): AddBlock with a key that already maps to a block fails
\* (the first half of the claim; the second half is that it changes nothing).
C17_DuplicateKeyRejected ==
  [][DuplicateAdd => ret'.err # "none"]_vars

\* C17 (amended): AddBlock with a key that already maps to a block is an
\* ordinary insert: when it succeeds the data is stored as a new block under
\* the next block number n, the key's entry is overwritten with n unless the
\* key is the numeral n itself, and every block record numbered below n that
\* is not stored under the key is unchanged.
C17_DuplicateKeyRepointed ==
  [][(DuplicateAdd /\ ret'.err = "none") =>
       LET n == ret'.n
       IN /\ n = Info.count + 1
          /\ db'[Itoa(n)] = MarshalBlock(NewBlock(ret'.data))
          /\ ret'.key # Itoa(n) => db'[ret'.key] = Raw(Itoa(n))
          /\ \A m \in 1..(n - 1) :
               (Itoa(m) # ret'.key /\ Has(db, Itoa(m))) =>
                 db'[Itoa(m)] = db[Itoa(m)]]_vars

\* A second AddBlock with key "a" has succeeded and the key now names the
\* later block.
C17_Witness ==
  /\ ret.op = "AddBlock"
  /\ ret.err = "none"
  /\ ret.key = "a"
  /\ ret.n >= 2
  /\ assigned = 1..ret.n
  /\ inserted = {"a"}
  /\ db["a"] = Raw(Itoa(ret.n))

\* C18: an AddBlock during which a write to the store fails returns an error
\* and leaves the key index, the block records and the metadata as they were.
C18_FailedWriteChangesNothing ==
  [][ret'.op = "AddBlockFault" => (ret'.err # "none" /\ db' = db)]_vars

\* C19: GetBlock, BlockNumber and EraseBlock called with a key AddBlock was
\* never called with return a not-found error and leave the store as it is.
C19_UnknownKeyNotFound ==
  [][(ret'.op \in {"GetBlock", "BlockNumber", "EraseBlock"}
        /\ ret'.key \notin inserted) =>
       (ret'.err = "notfound" /\ db' = db)]_vars

\* C20: New on a store without an info record stores size 1, blockCount 0 and
\* one empty digest per axis and nothing else; New on a store that has an
\* info record changes nothing in the store.
C20_NewInitialisesOnce ==
  /\ LET info == UnmarshalInfo(db[InfoKey]).info
     IN /\ DOMAIN db = {InfoKey}
        /\ info.size = 1
        /\ info.count = 0
        /\ Len(info.rows) = 1 /\ Bytes(info.rows[1]) = ""
        /\ Len(info.cols) = 1 /\ Bytes(info.cols[1]) = ""
  /\ [][(ret'.op = "New" /\ Has(db, InfoKey)) => db' = db]_vars

\* New has been called on a store that holds blocks.
C20_Witness ==
  /\ ret.op = "New"
  /\ InfoReadable
  /\ Info.count >= 2
  /\ Has(db, "a")

\* C21: Matrix returns a square grid whose side is the stored size, with no
\* block in the diagonal cells and, in every other cell (i, j), the stored
\* block whose number locateBlock maps to (i, j).
C21_MatrixIsStoredGrid ==
  (ret.op = "Matrix" /\ InfoReadable) =>
    /\ ret.err = "none"
    /\ Len(ret.grid) = Info.size
    /\ \A i \in 1..Len(ret.grid) :
         /\ Len(ret.grid[i]) = Info.size
         /\ \A j \in 1..Len(ret.grid[i]) :
              IF i = j
                THEN ret.grid[i][j] = NilCell
                ELSE \E n \in 1..(Info.size * Info.size - Info.size) :
                       /\ locateBlock(n) = <<i - 1, j - 1>>
                       /\ GetBlockByNumber(db, n).err = "none"
                       /\ ret.grid[i][j] = GetBlockByNumber(db, n).block

\* C23: after AddBlock calls only, whenever blockCount = size * size - size
\* every stored row digest and every stored column digest equals the digest
\* recomputed from the blocks now stored in that row or column.
C23_DigestsFreshAtFullShell ==
  (InfoReadable /\ Info.count >= 1
     /\ Info.count = Info.size * Info.size - Info.size) =>
    \A i \in 0..(Info.size - 1) :
      /\ RowDigest(i).err = "none" /\ Info.rows[i + 1] = RowDigest(i).hash
      /\ ColDigest(i).err = "none" /\ Info.cols[i + 1] = ColDigest(i).hash

\* C24: EraseBlock(key) returns success for every key that AddBlock was
\* called with and that still resolves to a block.
C24_EraseInsertedSucceeds ==
  [][(ret'.op = "EraseBlock"
        /\ ret'.key \in inserted
        /\ GetBlock(db, ret'.key).err = "none") =>
       ret'.err = "none"]_vars

\* C25: for a key EraseBlock has succeeded for, and AddBlock was not called
\* with since, GetBlock, BlockNumber and a further EraseBlock return a
\* not-found error and the further EraseBlock leaves the store as it is.
C25_ErasedKeyIsGone ==
  \A key \in erased :
    /\ GetBlock(db, key).err = "notfound"
    /\ BlockNumber(db, key).err = "notfound"
    /\ EraseBlock(db, key).err = "notfound"
    /\ EraseBlock(db, key).db = db

\* The store after request q made on store d as one uninterrupted call.
Apply(d, q) ==
  IF q.op = "AddBlock" THEN AddBlock(d, q.key, q.data).db
                       ELSE EraseBlock(d, q.key).db

\* C22: when two concurrent AddBlock / EraseBlock calls have both returned,
\* the store equals the store one of the two serial orders of the calls
\* produces.
C22_ConcurrentCallsSerialise ==
  calls.phase = "done" =>
    \/ db = Apply(Apply(calls.base, calls.q[1]), calls.q[2])
    \/ db = Apply(Apply(calls.base, calls.q[2]), calls.q[1])

====
